---- MODULE Spec2Model ----
(***************************************************************************)
(* Model of the shared SPI bus of the firmware: SPIArbiter::apply and the  *)
(* double-buffered DMA pipeline of the eGUI display driver                 *)
(* (d4dlcdhw_spi_spark_8b.cpp).                                            *)
(*                                                                         *)
(* The foreground is one execution context; its position is pc.  The DMA   *)
(* engine moves bytes concurrently, and its completion interrupt clears    *)
(* the HAL's transfer status and runs transferComplete in one step that    *)
(* can happen between any two foreground steps.                            *)
(***************************************************************************)
EXTENDS Integers, Sequences, FiniteSets

(* ---- bounds ----------------------------------------------------------- *)

\* capacity of one tx buffer; 320 in the source, scaled down for checking
SCREEN_DATA_BUFFER_SIZE == 3

\* display calls (SendDataWord, SendCmdWord, FlushBuffer) explored
MaxCalls == 6

\* SPIArbiter::apply calls explored
MaxApply == 3

\* display calls explored in behaviours that also call SPIArbiter::apply
MaxCallsWithApply == 2

(* ---- values ----------------------------------------------------------- *)

\* the "no selection" value of ss_pin_
NoPin == 255

\* 16-bit words handed to SendDataWord / SendCmdWord (both above and below 255)
DataWords == {1, 258}
CmdWords == {300}

FlushModes == {"D4DLCD_FLSH_ELEMENT", "D4DLCD_FLSH_SCR_END", "D4DLCD_FLSH_FORCE"}

\* SPI clients of the arbiter: mode 0..3, bitOrder 0 = LSBFIRST / 1 = MSBFIRST
ClientX == [mode |-> 0, bitOrder |-> 1, clockDivider |-> 32, ssPin |-> 7]
ClientY == [mode |-> 3, bitOrder |-> 0, clockDivider |-> 64, ssPin |-> 9]
ClientZ == [mode |-> 0, bitOrder |-> 0, clockDivider |-> 64, ssPin |-> 10]
Clients == {ClientX, ClientY, ClientZ}
ClientPins == {c.ssPin : c \in Clients}

\* clock divider written by D4DLCDHW_Init: DIV32 on PLATFORM_ID 0, DIV64 on 6
InitDividers == {32, 64}

VARIABLES
    \* display driver statics
    tx_buffer, active_buffer_idx, active_buffer_offset, dma_buffer_idx,
    \* foreground position, flushData's continuation, SendCmdWord's argument
    pc, ret, cmdArg, initialized,
    \* display pins
    cs, dc,
    \* HAL / DMA engine
    transfer_ongoing, dmaSrc, dmaLen, dmaPos, dmaId,
    \* SPIArbiter members
    mode_, bitOrder_, clockDivider_, ss_pin_,
    \* SPI peripheral registers and client select pins
    spiMode, spiBitOrder, spiDivider, ssLevel,
    \* history: calls made, bytes on the bus, transfers handed over / completed,
    \* hardware calls of the last apply, its client, number of applies
    calls, bus, scheduled, completed, hwCalls, lastClient, nApply, overflow,
    \* the client of the apply before the last one
    prevClient,
    \* ValveController: output nr, the DS2408's pio and latch bytes, the last
    \* call made and the value it returned
    valveOutput, valvePios, valveLatches, valveOp, valveResult,
    \* TempSensor: the wrapped sensor pointer, the sensors deleted so far, the
    \* last call, what uninstallSensor returned, the pointer before the call,
    \* and whether a deleted sensor was deleted again
    sensor, deletedSensors, sensorOp, sensorRet, sensorWas, sensorUB

displayVars == <<tx_buffer, active_buffer_idx, active_buffer_offset, dma_buffer_idx>>
fgVars == <<pc, ret, cmdArg, initialized>>
pinVars == <<cs, dc>>
dmaVars == <<transfer_ongoing, dmaSrc, dmaLen, dmaPos, dmaId>>
arbiterVars == <<mode_, bitOrder_, clockDivider_, ss_pin_>>
spiVars == <<spiMode, spiBitOrder, spiDivider, ssLevel>>
applyHist == <<hwCalls, lastClient, nApply, prevClient>>
histVars == <<calls, bus, scheduled, completed, overflow>>
valveVars == <<valveOutput, valvePios, valveLatches, valveOp, valveResult>>
sensorVars == <<sensor, deletedSensors, sensorOp, sensorRet, sensorWas, sensorUB>>

vars == <<displayVars, fgVars, pinVars, dmaVars, arbiterVars, spiVars, applyHist, histVars,
          valveVars, sensorVars>>

(* ---- helpers ---------------------------------------------------------- *)

\* storing an unsigned short into a uint8_t, or passing it as a byte
ToByte(v) == v % 256

hasPendingDataToSend == active_buffer_offset

\* variant: the index is not toggled
NewActiveIdx_Same(a) == a

NewActiveIdx(a) == (a + 1) % 2

\* variant: the buffer counts as full only past its capacity
IsFull_Late(off) == off > SCREEN_DATA_BUFFER_SIZE

\* variant: the buffer counts as full one byte early
IsFull_Early(off) == off >= SCREEN_DATA_BUFFER_SIZE - 1

IsFull(off) == off >= SCREEN_DATA_BUFFER_SIZE

\* variant: the offset is not used as the write index
WriteByte_AtZero(buf, idx, off, value) ==
    [buf EXCEPT ![idx][0] = ToByte(value)]

\* tx_buffer[idx][off] = value
WriteByte(buf, idx, off, value) ==
    IF off < SCREEN_DATA_BUFFER_SIZE
    THEN [buf EXCEPT ![idx][off] = ToByte(value)]
    ELSE buf

\* the first len bytes of a buffer, as a sequence
BufferBytes(buf, idx, len) ==
    [k \in 1..len |-> IF k <= SCREEN_DATA_BUFFER_SIZE THEN buf[idx][k - 1] ELSE 0]

\* flushData's test: with pending bytes the flush runs and continues at r
FlushDataFrom(off, r) ==
    IF off # 0
    THEN pc' = "sched_wait" /\ ret' = r
    ELSE pc' = r /\ ret' = "idle"

(* ---- initial state ---------------------------------------------------- *)

DisplayInit ==
    /\ tx_buffer = [i \in 0..1 |-> [k \in 0..(SCREEN_DATA_BUFFER_SIZE - 1) |-> 0]]
    /\ active_buffer_idx = 0
    /\ active_buffer_offset = 0
    /\ dma_buffer_idx = -1
    /\ pc = "idle" /\ ret = "idle" /\ cmdArg = 0 /\ initialized = FALSE
    /\ cs = "HIGH" /\ dc = "HIGH"
    /\ transfer_ongoing = FALSE /\ dmaSrc = 0 /\ dmaLen = 0 /\ dmaPos = 0 /\ dmaId = 0
    /\ calls = <<>> /\ bus = <<>> /\ scheduled = <<>> /\ completed = <<>>
    /\ overflow = FALSE

\* GlobalSPIArbiter(SPI): no client selected, peripheral at its defaults
ArbiterInit ==
    /\ mode_ = 0 /\ bitOrder_ = 1 /\ clockDivider_ = 128 /\ ss_pin_ = NoPin
    /\ spiMode = 0 /\ spiBitOrder = 1 /\ spiDivider = 128
    /\ ssLevel = [p \in ClientPins |-> "HIGH"]
    /\ hwCalls = <<>> /\ nApply = 0
    /\ lastClient = [mode |-> 0, bitOrder |-> 1, clockDivider |-> 128, ssPin |-> NoPin]
    /\ prevClient = [mode |-> 0, bitOrder |-> 1, clockDivider |-> 128, ssPin |-> NoPin]

\* no valve call is made in the behaviours of the bus
ValveUnused ==
    /\ valveOutput = 0 /\ valvePios = 0 /\ valveLatches = 0
    /\ valveOp = "none" /\ valveResult = 0

\* the sensors: the static default one and the ones callers allocate
DefaultSensor == "default"
HeapSensors == {"s1", "s2", "s3"}

\* no sensor call is made in the behaviours of the bus
SensorUnused ==
    /\ sensor = DefaultSensor /\ deletedSensors = {}
    /\ sensorOp = "none" /\ sensorRet = FALSE /\ sensorWas = DefaultSensor
    /\ sensorUB = FALSE

Init == DisplayInit /\ ArbiterInit /\ ValveUnused /\ SensorUnused

(* ---- display driver: foreground --------------------------------------- *)

CallBudget == IF nApply = 0 THEN MaxCalls ELSE MaxCallsWithApply

CanCall == pc = "idle" /\ initialized /\ Len(calls) < CallBudget

D4DLCDHW_Init ==
    /\ pc = "idle" /\ ~initialized
    /\ \E d \in InitDividers :
          /\ spiDivider' = d
          /\ spiBitOrder' = 1
          /\ spiMode' = 0
    /\ cs' = "HIGH"
    /\ dc' = "LOW"
    /\ initialized' = TRUE
    /\ UNCHANGED <<displayVars, pc, ret, cmdArg, dmaVars, arbiterVars, ssLevel,
                   applyHist, histVars>>
    /\ UNCHANGED <<valveVars, sensorVars>>

D4DLCDHW_SendDataWord ==
    /\ CanCall
    /\ \E value \in DataWords :
          /\ tx_buffer' = WriteByte(tx_buffer, active_buffer_idx, active_buffer_offset, value)
          /\ calls' = Append(calls, [kind |-> "data", byte |-> ToByte(value)])
    /\ overflow' = (overflow \/ active_buffer_offset >= SCREEN_DATA_BUFFER_SIZE)
    /\ active_buffer_offset' = active_buffer_offset + 1
    /\ IF IsFull(active_buffer_offset + 1)
       THEN FlushDataFrom(active_buffer_offset + 1, "idle")
       ELSE UNCHANGED <<pc, ret>>
    /\ UNCHANGED <<active_buffer_idx, dma_buffer_idx, cmdArg, initialized, pinVars,
                   dmaVars, arbiterVars, spiVars, applyHist, bus, scheduled, completed>>
    /\ UNCHANGED <<valveVars, sensorVars>>

\* variant: only the end-of-screen and forced modes flush
D4DLCD_FlushBuffer_ByMode ==
    /\ CanCall
    /\ \E mode \in FlushModes :
          /\ calls' = Append(calls, [kind |-> "flush", byte |-> 0])
          /\ IF mode = "D4DLCD_FLSH_SCR_END" \/ mode = "D4DLCD_FLSH_FORCE"
             THEN FlushDataFrom(hasPendingDataToSend, "idle")
             ELSE UNCHANGED <<pc, ret>>
    /\ UNCHANGED <<displayVars, cmdArg, initialized, pinVars, dmaVars, arbiterVars,
                   spiVars, applyHist, bus, scheduled, completed, overflow>>
    /\ UNCHANGED <<valveVars, sensorVars>>

D4DLCD_FlushBuffer ==
    /\ CanCall
    /\ \E mode \in FlushModes :
          /\ calls' = Append(calls, [kind |-> "flush", byte |-> 0])
          /\ IF TRUE \/ mode = "D4DLCD_FLSH_SCR_END" \/ mode = "D4DLCD_FLSH_FORCE"
             THEN FlushDataFrom(hasPendingDataToSend, "idle")
             ELSE UNCHANGED <<pc, ret>>
    /\ UNCHANGED <<displayVars, cmdArg, initialized, pinVars, dmaVars, arbiterVars,
                   spiVars, applyHist, bus, scheduled, completed, overflow>>
    /\ UNCHANGED <<valveVars, sensorVars>>

\* variant: the command does not flush the pending data first
D4DLCDHW_SendCmdWord_NoFlush ==
    /\ CanCall
    /\ \E cmd \in CmdWords :
          /\ cmdArg' = cmd
          /\ calls' = Append(calls, [kind |-> "cmd", byte |-> ToByte(cmd)])
    /\ pc' = "cmd_wait" /\ ret' = "idle"
    /\ UNCHANGED <<displayVars, initialized, pinVars, dmaVars, arbiterVars,
                   spiVars, applyHist, bus, scheduled, completed, overflow>>
    /\ UNCHANGED <<valveVars, sensorVars>>

D4DLCDHW_SendCmdWord ==
    /\ CanCall
    /\ \E cmd \in CmdWords :
          /\ cmdArg' = cmd
          /\ calls' = Append(calls, [kind |-> "cmd", byte |-> ToByte(cmd)])
    /\ FlushDataFrom(hasPendingDataToSend, "cmd_wait")
    /\ UNCHANGED <<displayVars, initialized, pinVars, dmaVars, arbiterVars,
                   spiVars, applyHist, bus, scheduled, completed, overflow>>
    /\ UNCHANGED <<valveVars, sensorVars>>

\* variant: scheduleTransfer does not wait for the previous transfer
ScheduleWait_NoWait ==
    /\ pc = "sched_wait"
    /\ pc' = "sched_cs"
    /\ UNCHANGED <<displayVars, ret, cmdArg, initialized, pinVars, dmaVars,
                   arbiterVars, spiVars, applyHist, histVars>>
    /\ UNCHANGED <<valveVars, sensorVars>>

\* scheduleTransfer: waitForTransferToComplete()
ScheduleWait ==
    /\ pc = "sched_wait"
    /\ ~transfer_ongoing
    /\ pc' = "sched_cs"
    /\ UNCHANGED <<displayVars, ret, cmdArg, initialized, pinVars, dmaVars,
                   arbiterVars, spiVars, applyHist, histVars>>
    /\ UNCHANGED <<valveVars, sensorVars>>

\* scheduleTransfer: D4DLCD_ASSERT_CS
ScheduleAssertCS ==
    /\ pc = "sched_cs"
    /\ cs' = "LOW"
    /\ pc' = "sched_idx"
    /\ UNCHANGED <<displayVars, ret, cmdArg, initialized, dc, dmaVars,
                   arbiterVars, spiVars, applyHist, histVars>>
    /\ UNCHANGED <<valveVars, sensorVars>>

\* scheduleTransfer: dma_buffer_idx = tx_buffer_idx
ScheduleSetIdx ==
    /\ pc = "sched_idx"
    /\ dma_buffer_idx' = active_buffer_idx
    /\ pc' = "sched_start"
    /\ UNCHANGED <<tx_buffer, active_buffer_idx, active_buffer_offset, ret, cmdArg,
                   initialized, pinVars, dmaVars, arbiterVars, spiVars, applyHist,
                   histVars>>
    /\ UNCHANGED <<valveVars, sensorVars>>

\* scheduleTransfer: SPI.transfer(tx_buffer[tx_buffer_idx], NULL, length, transferComplete)
\* A transfer started over an ongoing one replaces it in the DMA engine.
ScheduleStart ==
    /\ pc = "sched_start"
    /\ transfer_ongoing' = TRUE
    /\ dmaSrc' = active_buffer_idx
    /\ dmaLen' = active_buffer_offset
    /\ dmaPos' = 0
    /\ dmaId' = Len(scheduled) + 1
    /\ scheduled' = Append(scheduled,
                           [idx |-> active_buffer_idx,
                            length |-> active_buffer_offset,
                            data |-> BufferBytes(tx_buffer, active_buffer_idx,
                                                 active_buffer_offset)])
    /\ pc' = "flush_cmp"
    /\ UNCHANGED <<displayVars, ret, cmdArg, initialized, pinVars, arbiterVars,
                   spiVars, applyHist, calls, bus, completed, overflow>>
    /\ UNCHANGED <<valveVars, sensorVars>>

\* flushData: if (new_active_idx == dma_buffer_idx)
FlushCompare ==
    /\ pc = "flush_cmp"
    /\ pc' = IF NewActiveIdx(active_buffer_idx) = dma_buffer_idx
             THEN "flush_wait" ELSE "flush_swap"
    /\ UNCHANGED <<displayVars, ret, cmdArg, initialized, pinVars, dmaVars,
                   arbiterVars, spiVars, applyHist, histVars>>
    /\ UNCHANGED <<valveVars, sensorVars>>

\* variant: the active buffer is not swapped after the hand-over
FlushSwap_NoSwap ==
    /\ pc \in {"flush_wait", "flush_swap"}
    /\ active_buffer_offset' = 0
    /\ active_buffer_idx' = active_buffer_idx
    /\ pc' = ret
    /\ ret' = "idle"
    /\ UNCHANGED <<tx_buffer, dma_buffer_idx, cmdArg, initialized, pinVars, dmaVars,
                   arbiterVars, spiVars, applyHist, histVars>>
    /\ UNCHANGED <<valveVars, sensorVars>>

\* flushData: the wait of the branch taken, then the swap of the active buffer
FlushSwap ==
    /\ pc \in {"flush_wait", "flush_swap"}
    /\ pc = "flush_wait" => ~transfer_ongoing
    /\ active_buffer_offset' = 0
    /\ active_buffer_idx' = NewActiveIdx(active_buffer_idx)
    /\ pc' = ret
    /\ ret' = "idle"
    /\ UNCHANGED <<tx_buffer, dma_buffer_idx, cmdArg, initialized, pinVars, dmaVars,
                   arbiterVars, spiVars, applyHist, histVars>>
    /\ UNCHANGED <<valveVars, sensorVars>>

\* variant: the command does not wait for the transfer in flight
CmdWait_NoWait ==
    /\ pc = "cmd_wait"
    /\ pc' = "cmd_dc"
    /\ UNCHANGED <<displayVars, ret, cmdArg, initialized, pinVars, dmaVars,
                   arbiterVars, spiVars, applyHist, histVars>>
    /\ UNCHANGED <<valveVars, sensorVars>>

\* SendCmdWord: waitForTransferToComplete()
CmdWait ==
    /\ pc = "cmd_wait"
    /\ ~transfer_ongoing
    /\ pc' = "cmd_dc"
    /\ UNCHANGED <<displayVars, ret, cmdArg, initialized, pinVars, dmaVars,
                   arbiterVars, spiVars, applyHist, histVars>>
    /\ UNCHANGED <<valveVars, sensorVars>>

\* SendCmdWord: D4DLCD_ASSERT_DC
CmdAssertDC ==
    /\ pc = "cmd_dc"
    /\ dc' = "LOW"
    /\ pc' = "cmd_cs"
    /\ UNCHANGED <<displayVars, ret, cmdArg, initialized, cs, dmaVars,
                   arbiterVars, spiVars, applyHist, histVars>>
    /\ UNCHANGED <<valveVars, sensorVars>>

\* SendCmdWord: D4DLCD_ASSERT_CS
CmdAssertCS ==
    /\ pc = "cmd_cs"
    /\ cs' = "LOW"
    /\ pc' = "cmd_xfer"
    /\ UNCHANGED <<displayVars, ret, cmdArg, initialized, dc, dmaVars,
                   arbiterVars, spiVars, applyHist, histVars>>
    /\ UNCHANGED <<valveVars, sensorVars>>

\* SendCmdWord: SPI.transfer(cmd)
CmdTransfer ==
    /\ pc = "cmd_xfer"
    /\ bus' = Append(bus, [kind |-> "cmd", byte |-> ToByte(cmdArg)])
    /\ pc' = "cmd_cs_off"
    /\ UNCHANGED <<displayVars, ret, cmdArg, initialized, pinVars, dmaVars,
                   arbiterVars, spiVars, applyHist, calls, scheduled, completed,
                   overflow>>
    /\ UNCHANGED <<valveVars, sensorVars>>

\* SendCmdWord: D4DLCD_DEASSERT_CS
CmdDeassertCS ==
    /\ pc = "cmd_cs_off"
    /\ cs' = "HIGH"
    /\ pc' = "cmd_dc_off"
    /\ UNCHANGED <<displayVars, ret, cmdArg, initialized, dc, dmaVars,
                   arbiterVars, spiVars, applyHist, histVars>>
    /\ UNCHANGED <<valveVars, sensorVars>>

\* SendCmdWord: D4DLCD_DEASSERT_DC
CmdDeassertDC ==
    /\ pc = "cmd_dc_off"
    /\ dc' = "HIGH"
    /\ pc' = "idle"
    /\ UNCHANGED <<displayVars, ret, cmdArg, initialized, cs, dmaVars,
                   arbiterVars, spiVars, applyHist, histVars>>
    /\ UNCHANGED <<valveVars, sensorVars>>

(* ---- DMA engine and completion interrupt ------------------------------ *)

\* the engine reads the next byte of the buffer it was given and clocks it out
DMAStep ==
    /\ transfer_ongoing
    /\ dmaPos < dmaLen
    /\ bus' = Append(bus, [kind |-> "data",
                           byte |-> IF dmaPos < SCREEN_DATA_BUFFER_SIZE
                                    THEN tx_buffer[dmaSrc][dmaPos] ELSE 0])
    /\ dmaPos' = dmaPos + 1
    /\ UNCHANGED <<displayVars, fgVars, pinVars, transfer_ongoing, dmaSrc, dmaLen,
                   dmaId, arbiterVars, spiVars, applyHist, calls, scheduled,
                   completed, overflow>>
    /\ UNCHANGED <<valveVars, sensorVars>>

\* variant: the notification also resets the fill length
transferComplete_ResetsOffset ==
    /\ transfer_ongoing
    /\ dmaPos = dmaLen
    /\ transfer_ongoing' = FALSE
    /\ cs' = "HIGH"
    /\ dma_buffer_idx' = -1
    /\ active_buffer_offset' = 0
    /\ completed' = Append(completed, dmaId)
    /\ UNCHANGED <<tx_buffer, active_buffer_idx, fgVars, dc,
                   dmaSrc, dmaLen, dmaPos, dmaId, arbiterVars, spiVars, applyHist,
                   calls, bus, scheduled, overflow>>
    /\ UNCHANGED <<valveVars, sensorVars>>

\* variant: the notification does not mark the buffer idle
transferComplete_KeepsIdx ==
    /\ transfer_ongoing
    /\ dmaPos = dmaLen
    /\ transfer_ongoing' = FALSE
    /\ cs' = "HIGH"
    /\ completed' = Append(completed, dmaId)
    /\ UNCHANGED <<displayVars, fgVars, dc,
                   dmaSrc, dmaLen, dmaPos, dmaId, arbiterVars, spiVars, applyHist,
                   calls, bus, scheduled, overflow>>
    /\ UNCHANGED <<valveVars, sensorVars>>

\* completion interrupt: the HAL reports idle and calls transferComplete()
transferComplete ==
    /\ transfer_ongoing
    /\ dmaPos = dmaLen
    /\ transfer_ongoing' = FALSE
    /\ cs' = "HIGH"
    /\ dma_buffer_idx' = -1
    /\ completed' = Append(completed, dmaId)
    /\ UNCHANGED <<tx_buffer, active_buffer_idx, active_buffer_offset, fgVars, dc,
                   dmaSrc, dmaLen, dmaPos, dmaId, arbiterVars, spiVars, applyHist,
                   calls, bus, scheduled, overflow>>
    /\ UNCHANGED <<valveVars, sensorVars>>

(* ---- SPIArbiter ------------------------------------------------------- *)

HwCall(op, arg, level) == [op |-> op, arg |-> arg, level |-> level]

\* variant: the data mode is set on every apply
ApplyCalls_AlwaysMode(client) ==
    <<HwCall("setDataMode", client.mode, "NA")>>
    \o (IF bitOrder_ # client.bitOrder
        THEN <<HwCall("setBitOrder", client.bitOrder, "NA")>> ELSE <<>>)
    \o (IF clockDivider_ # client.clockDivider
        THEN <<HwCall("setClockDivider", client.clockDivider, "NA")>> ELSE <<>>)
    \o (IF ss_pin_ # NoPin
        THEN <<HwCall("digitalWrite", ss_pin_, "HIGH")>> ELSE <<>>)
    \o <<HwCall("digitalWrite", client.ssPin, "LOW")>>

\* the hardware calls SPIArbiter::apply(client) makes, in order
ApplyCalls(client) ==
    (IF mode_ # client.mode
     THEN <<HwCall("setDataMode", client.mode, "NA")>> ELSE <<>>)
    \o (IF bitOrder_ # client.bitOrder
        THEN <<HwCall("setBitOrder", client.bitOrder, "NA")>> ELSE <<>>)
    \o (IF clockDivider_ # client.clockDivider
        THEN <<HwCall("setClockDivider", client.clockDivider, "NA")>> ELSE <<>>)
    \o (IF ss_pin_ # NoPin
        THEN <<HwCall("digitalWrite", ss_pin_, "HIGH")>> ELSE <<>>)
    \o <<HwCall("digitalWrite", client.ssPin, "LOW")>>

\* digitalWrite(ss_pin_, HIGH) when a pin is stored, then digitalWrite(client pin, LOW)
ApplyPins(levels, client) ==
    [p \in ClientPins |->
        IF p = client.ssPin THEN "LOW"
        ELSE IF ss_pin_ # NoPin /\ p = ss_pin_ THEN "HIGH"
        ELSE levels[p]]

SPIArbiter_apply ==
    /\ pc = "idle"
    /\ nApply < MaxApply
    /\ Len(calls) <= MaxCallsWithApply
    /\ \E client \in Clients :
          /\ mode_' = client.mode
          /\ spiMode' = IF mode_ # client.mode THEN client.mode ELSE spiMode
          /\ bitOrder_' = client.bitOrder
          /\ spiBitOrder' = IF bitOrder_ # client.bitOrder THEN client.bitOrder
                            ELSE spiBitOrder
          /\ clockDivider_' = client.clockDivider
          /\ spiDivider' = IF clockDivider_ # client.clockDivider
                           THEN client.clockDivider ELSE spiDivider
          /\ ssLevel' = ApplyPins(ssLevel, client)
          /\ hwCalls' = ApplyCalls(client)
          /\ lastClient' = client
    /\ prevClient' = lastClient
    /\ nApply' = nApply + 1
    /\ UNCHANGED <<ss_pin_, displayVars, fgVars, pinVars, dmaVars, histVars>>
    /\ UNCHANGED <<valveVars, sensorVars>>

(* ---- specification ---------------------------------------------------- *)

Next ==
    \/ D4DLCDHW_Init
    \/ D4DLCDHW_SendDataWord
    \/ D4DLCD_FlushBuffer
    \/ D4DLCDHW_SendCmdWord
    \/ ScheduleWait
    \/ ScheduleAssertCS
    \/ ScheduleSetIdx
    \/ ScheduleStart
    \/ FlushCompare
    \/ FlushSwap
    \/ CmdWait
    \/ CmdAssertDC
    \/ CmdAssertCS
    \/ CmdTransfer
    \/ CmdDeassertCS
    \/ CmdDeassertDC
    \/ DMAStep
    \/ transferComplete
    \/ SPIArbiter_apply

Spec == Init /\ [][Next]_vars

\* The CPU keeps executing the call it is in, the DMA engine keeps clocking
\* bytes out and raises its completion interrupt; new calls need not come.
Fairness ==
    /\ WF_vars(ScheduleWait) /\ WF_vars(ScheduleAssertCS) /\ WF_vars(ScheduleSetIdx)
    /\ WF_vars(ScheduleStart) /\ WF_vars(FlushCompare) /\ WF_vars(FlushSwap)
    /\ WF_vars(CmdWait) /\ WF_vars(CmdAssertDC) /\ WF_vars(CmdAssertCS)
    /\ WF_vars(CmdTransfer) /\ WF_vars(CmdDeassertCS) /\ WF_vars(CmdDeassertDC)
    /\ WF_vars(DMAStep) /\ WF_vars(transferComplete)

FairSpec == Spec /\ Fairness

TypeOK ==
    /\ active_buffer_idx \in 0..1
    /\ dma_buffer_idx \in -1..1
    /\ active_buffer_offset \in 0..SCREEN_DATA_BUFFER_SIZE
    /\ ~overflow

(* ---- ValveController ---------------------------------------------------- *)

\* uint8_t values, and the output numbers a valve is constructed with
Bytes == 0..255
ValveOutputs == {0, 1}

\* x >> n on a uint8_t
Shr(x, n) == x \div (2 ^ n)

\* x & 0b11
And3(x) == x % 4

\* variant: the selected valve's nibble is not shifted down
getState_NoShift(pios, output) == And3(pios)

\* ValveController::getState on the byte readPios(true) returns
getState(pios, output) ==
    And3(IF output = 1 THEN Shr(pios, 4) ELSE pios)

\* ValveController::getAction on the byte readLatches(true) returns
getAction(latches, output) ==
    And3(Shr(IF output = 1 THEN Shr(latches, 4) ELSE latches, 2))

\* (getAction() << 2 | getState()) as a uint8_t; the two operands share no bit
ValveRead(latches, pios, output) ==
    (getAction(latches, output) * 4 + getState(pios, output)) % 256

\* valvePios and valveLatches are the bytes the DS2408 returns to the reads of
\* the call, which for read(true) come after update()
ValveInit ==
    /\ valveOutput \in ValveOutputs
    /\ valvePios \in Bytes
    /\ valveLatches \in Bytes
    /\ valveOp = "none" /\ valveResult = 0

busVars == <<displayVars, fgVars, pinVars, dmaVars, arbiterVars, spiVars, applyHist,
             histVars>>

Valve_getState ==
    /\ valveOp = "none"
    /\ valveResult' = getState(valvePios, valveOutput)
    /\ valveOp' = "getState"
    /\ UNCHANGED <<busVars, valveOutput, valvePios, valveLatches, sensorVars>>

Valve_getAction ==
    /\ valveOp = "none"
    /\ valveResult' = getAction(valveLatches, valveOutput)
    /\ valveOp' = "getAction"
    /\ UNCHANGED <<busVars, valveOutput, valvePios, valveLatches, sensorVars>>

Valve_read ==
    /\ valveOp = "none"
    /\ \E doUpdate \in BOOLEAN :
          valveResult' = ValveRead(valveLatches, valvePios, valveOutput)
    /\ valveOp' = "read"
    /\ UNCHANGED <<busVars, valveOutput, valvePios, valveLatches, sensorVars>>

InitValve == DisplayInit /\ ArbiterInit /\ ValveInit /\ SensorUnused

NextValve ==
    \/ Valve_getState
    \/ Valve_getAction
    \/ Valve_read

SpecValve == InitValve /\ [][NextValve]_vars

(* ---- TempSensor --------------------------------------------------------- *)

\* TempSensor() wraps the default sensor, TempSensor(s) a sensor of the caller
SensorInit ==
    /\ sensor \in {DefaultSensor} \cup HeapSensors
    /\ deletedSensors = {}
    /\ sensorOp = "none" /\ sensorRet = FALSE /\ sensorWas = sensor
    /\ sensorUB = FALSE

\* what uninstallSensor returns with p installed
UninstallReturns(p) == p # DefaultSensor

\* the sensors deleted after uninstallSensor ran with p installed
UninstallDeletes(p, deleted) ==
    IF p = DefaultSensor THEN deleted ELSE deleted \cup {p}

\* delete of a sensor that is already deleted: undefined from here on
DeletesTwice(p, deleted) == p # DefaultSensor /\ p \in deleted

\* sensors a caller can pass: the default one and every live one, the
\* installed one included
Installable == {DefaultSensor} \cup (HeapSensors \ deletedSensors)

TempSensor_uninstallSensor ==
    /\ ~sensorUB
    /\ sensorWas' = sensor
    /\ sensorRet' = UninstallReturns(sensor)
    /\ deletedSensors' = UninstallDeletes(sensor, deletedSensors)
    /\ sensorUB' = DeletesTwice(sensor, deletedSensors)
    /\ sensor' = DefaultSensor
    /\ sensorOp' = "uninstall"
    /\ UNCHANGED <<busVars, valveVars>>

TempSensor_installSensor ==
    /\ ~sensorUB
    /\ \E s \in Installable :
          /\ sensorWas' = sensor
          /\ deletedSensors' = UninstallDeletes(sensor, deletedSensors)
          /\ sensorUB' = DeletesTwice(sensor, deletedSensors)
          /\ sensor' = s
    /\ sensorOp' = "install"
    /\ UNCHANGED sensorRet
    /\ UNCHANGED <<busVars, valveVars>>

InitSensor == DisplayInit /\ ArbiterInit /\ ValveUnused /\ SensorInit

NextSensor ==
    \/ TempSensor_uninstallSensor
    \/ TempSensor_installSensor

SpecSensor == InitSensor /\ [][NextSensor]_vars

(* ---- history helpers -------------------------------------------------- *)

IsPrefix(s, t) == Len(s) <= Len(t) /\ \A i \in 1..Len(s) : s[i] = t[i]

IsData(c) == c.kind = "data"
IsOnBus(c) == c.kind # "flush"

BytesOf(s) == [i \in 1..Len(s) |-> s[i].byte]

\* bytes appended by SendDataWord, in call order
AppendedBytes == BytesOf(SelectSeq(calls, IsData))

\* data and command bytes written, in call order
WrittenWords == SelectSeq(calls, IsOnBus)

\* data bytes clocked out by the DMA engine
BusData == BytesOf(SelectSeq(bus, IsData))

RECURSIVE ConcatData(_)
ConcatData(s) == IF s = <<>> THEN <<>> ELSE s[1].data \o ConcatData(Tail(s))

\* bytes pending in the active buffer
PendingBytes == BufferBytes(tx_buffer, active_buffer_idx, active_buffer_offset)

\* between the hand-over of the active buffer and the swap
InFlushTail == pc \in {"flush_cmp", "flush_wait", "flush_swap"}

AssertedSelects ==
    {p \in ClientPins : ssLevel[p] = "LOW"}

NumAsserted == Cardinality(AssertedSelects) + (IF cs = "LOW" THEN 1 ELSE 0)

(* ---- claims ----------------------------------------------------------- *)

\* C1: at most one select line (client pins and the display's chip select)
\* is asserted (LOW) in every reachable state.
C1_MutualExclusion == NumAsserted <= 1

\* C2: the foreground never writes a byte into tx_buffer[i] while the DMA
\* transfer reading tx_buffer[i] is in flight.
C2_NoWriteInFlight ==
    [][ /\ (Len(calls') > Len(calls) /\ calls'[Len(calls')].kind = "data")
            => ~(transfer_ongoing /\ dmaSrc = active_buffer_idx)
        /\ \A i \in 0..1 : tx_buffer'[i] # tx_buffer[i]
            => ~(transfer_ongoing /\ dmaSrc = i) ]_vars

\* a byte was appended to one buffer while the other was being transferred
C2_Witness ==
    /\ transfer_ongoing /\ dmaPos < dmaLen
    /\ dmaSrc # active_buffer_idx
    /\ active_buffer_offset > 0
    /\ pc = "idle"

\* C3: every buffer handed to scheduleTransfer holds exactly the bytes appended
\* since the previous flush, in order; the transferred buffers concatenated
\* (and the bytes the DMA engine clocks out) are the appended bytes.
C3_Fifo ==
    /\ \A i \in 1..Len(scheduled) : Len(scheduled[i].data) = scheduled[i].length
    /\ ConcatData(scheduled) \o (IF InFlushTail THEN <<>> ELSE PendingBytes)
          = AppendedBytes
    /\ IsPrefix(BusData, ConcatData(scheduled))
    /\ ~transfer_ongoing => BusData = ConcatData(scheduled)

\* two buffers with different contents went out completely
C3_Witness ==
    /\ Len(scheduled) >= 2
    /\ scheduled[1].length = SCREEN_DATA_BUFFER_SIZE
    /\ scheduled[1].data[1] # scheduled[1].data[2]
    /\ scheduled[2].length >= 1
    /\ ~transfer_ongoing
    /\ BusData = AppendedBytes

\* C4: data and command bytes reach the bus in call order: the bus log is a
\* prefix of the written words, and right after a command's synchronous
\* transfer everything written so far is on the bus.
C4_CallOrder ==
    /\ IsPrefix(bus, WrittenWords)
    /\ pc = "cmd_cs_off" => bus = WrittenWords

\* data, then a command, then data again have reached the bus
C4_Witness ==
    /\ Len(bus) >= 3
    /\ \E i \in 2..(Len(bus) - 1) :
          /\ bus[i].kind = "cmd"
          /\ bus[i - 1].kind = "data"
          /\ bus[i + 1].kind = "data"

\* C5: from the end of SendCmdWord's wait up to its SPI.transfer(cmd) the
\* hardware transfer status is idle.
C5_CmdSeesIdle ==
    pc \in {"cmd_dc", "cmd_cs", "cmd_xfer"} => ~transfer_ongoing

\* a command is about to be transferred after buffered data went out by DMA
C5_Witness ==
    /\ pc = "cmd_xfer"
    /\ Len(scheduled) >= 1
    /\ Len(completed) = Len(scheduled)

\* C6: the slot handed to scheduleTransfer is not already marked in flight,
\* and once flushData has returned the active slot is not in flight.
C6_NoDoubleDispatch ==
    pc \notin {"sched_start", "flush_cmp", "flush_wait", "flush_swap"}
        => /\ dma_buffer_idx # active_buffer_idx
           /\ ~(transfer_ongoing /\ dmaSrc = active_buffer_idx)

\* flushData returned for the second time while its transfer is in flight:
\* the slot of the first transfer is active again
C6_Witness ==
    /\ pc = "idle"
    /\ Len(scheduled) >= 2
    /\ transfer_ongoing
    /\ dma_buffer_idx = scheduled[2].idx
    /\ active_buffer_idx = scheduled[1].idx

\* C7: a transfer is started only when none is in flight, at most one is in
\* flight, and transfers complete in the order they were scheduled.
C7_OneInFlight ==
    /\ pc = "sched_start" => ~transfer_ongoing
    /\ completed = [i \in 1..Len(completed) |-> i]
    /\ Len(scheduled) = Len(completed) + (IF transfer_ongoing THEN 1 ELSE 0)

C7_Witness ==
    /\ Len(completed) >= 2
    /\ transfer_ongoing

\* C8: from an empty buffer, N SendDataWord calls give floor(N/capacity)
\* transfers of length capacity and leave N mod capacity bytes pending; a
\* following FlushBuffer sends those in one more transfer, if there are any.
NData == Len(SelectSeq(calls, IsData))

OnlyData == NData = Len(calls)

DataThenFlush ==
    /\ Len(calls) >= 1
    /\ NData = Len(calls) - 1
    /\ calls[Len(calls)].kind = "flush"

C8_RoundTrip ==
    /\ (pc = "idle" /\ OnlyData) =>
          /\ Len(scheduled) = NData \div SCREEN_DATA_BUFFER_SIZE
          /\ \A i \in 1..Len(scheduled) :
                scheduled[i].length = SCREEN_DATA_BUFFER_SIZE
          /\ active_buffer_offset = NData % SCREEN_DATA_BUFFER_SIZE
          /\ PendingBytes = SubSeq(AppendedBytes,
                                   NData - (NData % SCREEN_DATA_BUFFER_SIZE) + 1,
                                   NData)
    /\ (pc = "idle" /\ DataThenFlush) =>
          /\ active_buffer_offset = 0
          /\ Len(scheduled) = (NData \div SCREEN_DATA_BUFFER_SIZE)
                + (IF NData % SCREEN_DATA_BUFFER_SIZE # 0 THEN 1 ELSE 0)
          /\ \A i \in 1..(NData \div SCREEN_DATA_BUFFER_SIZE) :
                scheduled[i].length = SCREEN_DATA_BUFFER_SIZE
          /\ NData % SCREEN_DATA_BUFFER_SIZE # 0 =>
                /\ scheduled[Len(scheduled)].length = NData % SCREEN_DATA_BUFFER_SIZE
                /\ scheduled[Len(scheduled)].data =
                      SubSeq(AppendedBytes,
                             NData - (NData % SCREEN_DATA_BUFFER_SIZE) + 1, NData)

\* capacity + 1 words then FlushBuffer: one full transfer and one of length 1
C8_Witness ==
    /\ pc = "idle"
    /\ DataThenFlush
    /\ NData = SCREEN_DATA_BUFFER_SIZE + 1
    /\ Len(scheduled) = 2
    /\ scheduled[2].length = 1

\* C9: after each apply the arbiter's mode_, bitOrder_, clockDivider_ and
\* ss_pin_ equal the fields of the most recently applied config.
C9_StateIsLastConfig ==
    nApply > 0 =>
        /\ mode_ = lastClient.mode
        /\ bitOrder_ = lastClient.bitOrder
        /\ clockDivider_ = lastClient.clockDivider
        /\ ss_pin_ = lastClient.ssPin

\* C10: in every apply call setDataMode, setBitOrder and setClockDivider are
\* each invoked exactly when the client's value differs from the stored one.
Invoked(log, op, arg) == \E i \in 1..Len(log) : log[i].op = op /\ log[i].arg = arg
InvokedOp(log, op) == \E i \in 1..Len(log) : log[i].op = op

C10_OnlyChangedFields ==
    [][ nApply' # nApply =>
          /\ InvokedOp(hwCalls', "setDataMode") <=> (mode_ # lastClient'.mode)
          /\ InvokedOp(hwCalls', "setBitOrder") <=> (bitOrder_ # lastClient'.bitOrder)
          /\ InvokedOp(hwCalls', "setClockDivider")
                <=> (clockDivider_ # lastClient'.clockDivider)
          /\ InvokedOp(hwCalls', "setDataMode")
                => Invoked(hwCalls', "setDataMode", lastClient'.mode)
          /\ InvokedOp(hwCalls', "setBitOrder")
                => Invoked(hwCalls', "setBitOrder", lastClient'.bitOrder)
          /\ InvokedOp(hwCalls', "setClockDivider")
                => Invoked(hwCalls', "setClockDivider", lastClient'.clockDivider)
      ]_vars

\* an apply that changed the bit order and the divider but kept the mode
C10_Witness ==
    /\ nApply >= 2
    /\ InvokedOp(hwCalls, "setBitOrder")
    /\ InvokedOp(hwCalls, "setClockDivider")
    /\ ~InvokedOp(hwCalls, "setDataMode")

\* the step is an apply call, and it repeats the config of the apply before it
ApplyStep == nApply' # nApply
RepeatedApply == ApplyStep /\ nApply >= 1 /\ lastClient' = lastClient

\* C11: a second apply in a row with the same config makes no hardware write.
C11_SecondApplyNoWrites ==
    [][ RepeatedApply => hwCalls' = <<>> ]_vars

\* C11 as the code has it: the second apply calls none of setDataMode,
\* setBitOrder and setClockDivider and leaves the peripheral's registers and
\* the arbiter's fields unchanged; its hardware calls are select-pin writes
\* only, and the client's pin is LOW afterwards.
C11_SecondApplyNoReconfig ==
    [][ RepeatedApply =>
          /\ \A i \in 1..Len(hwCalls') : hwCalls'[i].op = "digitalWrite"
          /\ Invoked(hwCalls', "digitalWrite", lastClient.ssPin)
          /\ ssLevel'[lastClient.ssPin] = "LOW"
          /\ UNCHANGED <<spiMode, spiBitOrder, spiDivider>>
          /\ UNCHANGED <<mode_, bitOrder_, clockDivider_>> ]_vars

\* the same client was applied twice in a row
C11_Witness ==
    /\ nApply >= 2
    /\ prevClient = lastClient
    /\ Len(hwCalls) = 1

\* C12: when apply(client) returns, the peripheral's mode, bit order and
\* divider are the client's, its select pin is asserted and no other
\* client's select pin is.
C12_BusMatchesClient ==
    [][ ApplyStep =>
          /\ spiMode' = lastClient'.mode
          /\ spiBitOrder' = lastClient'.bitOrder
          /\ spiDivider' = lastClient'.clockDivider
          /\ ssLevel'[lastClient'.ssPin] = "LOW"
          /\ \A p \in ClientPins \ {lastClient'.ssPin} : ssLevel'[p] = "HIGH" ]_vars

\* C13: apply for Y after apply for X deasserts pin 7, then sets the three
\* electrical fields, then asserts pin 9.
C13_HandoffOrder ==
    (nApply >= 2 /\ prevClient = ClientX /\ lastClient = ClientY) =>
        hwCalls = << HwCall("digitalWrite", ClientX.ssPin, "HIGH"),
                     HwCall("setDataMode", ClientY.mode, "NA"),
                     HwCall("setBitOrder", ClientY.bitOrder, "NA"),
                     HwCall("setClockDivider", ClientY.clockDivider, "NA"),
                     HwCall("digitalWrite", ClientY.ssPin, "LOW") >>

\* bits hi..lo (two bits) of a byte, read bit by bit
Bit(v, k) == (v \div (2 ^ k)) % 2
TwoBits(v, lo) == 2 * Bit(v, lo + 1) + Bit(v, lo)

\* C14: getState returns bits 1-0 (output 0) or 5-4 (output 1) of readPios,
\* getAction bits 3-2 or 7-6 of readLatches, and read the 4-bit value with
\* the action in the upper two bits and the state in the lower two.
C14_ValveBits ==
    /\ valveOp = "getState" =>
          valveResult = TwoBits(valvePios, IF valveOutput = 0 THEN 0 ELSE 4)
    /\ valveOp = "getAction" =>
          valveResult = TwoBits(valveLatches, IF valveOutput = 0 THEN 2 ELSE 6)
    /\ valveOp = "read" =>
          /\ valveResult \in 0..15
          /\ TwoBits(valveResult, 2)
                = TwoBits(valveLatches, IF valveOutput = 0 THEN 2 ELSE 6)
          /\ TwoBits(valveResult, 0)
                = TwoBits(valvePios, IF valveOutput = 0 THEN 0 ELSE 4)

\* read on the upper valve while it is closing (10) and opened (01), with
\* the lower valve's bits different
C14_Witness ==
    /\ valveOp = "read"
    /\ valveOutput = 1
    /\ valveLatches = 180
    /\ valvePios = 94
    /\ valveResult = 9

\* C15: exactly one slot is active, at most one is in flight, and
\* active_buffer_idx differs from dma_buffer_idx unless that is -1.
C15_ActiveNotInFlight ==
    /\ active_buffer_idx \in {0, 1}
    /\ dma_buffer_idx \in {-1, 0, 1}
    /\ dma_buffer_idx # -1 => active_buffer_idx # dma_buffer_idx

\* inside flushData, from dma_buffer_idx = tx_buffer_idx up to the swap
InHandover == pc \in {"sched_start", "flush_cmp", "flush_wait", "flush_swap"}

\* C15 as the code has it: the two indices stay in range in every state and
\* differ in every state outside the hand-over window of flushData; inside
\* it dma_buffer_idx is the active slot or -1.
C15_ActiveNotInFlightOutsideHandover ==
    /\ active_buffer_idx \in {0, 1}
    /\ dma_buffer_idx \in {-1, 0, 1}
    /\ ~InHandover => active_buffer_idx # dma_buffer_idx
    /\ InHandover => dma_buffer_idx \in {-1, active_buffer_idx}

\* slot 1 is in flight while slot 0 is being filled again
C15_Witness ==
    /\ pc = "idle"
    /\ dma_buffer_idx = 1
    /\ active_buffer_idx = 0
    /\ active_buffer_offset > 0

\* C16: chip select is asserted (scheduleTransfer, SendCmdWord) only when it
\* is deasserted and no completion notification is still owed.
C16_AssertAfterDeassert ==
    pc \in {"sched_cs", "cmd_cs"} =>
        /\ cs = "HIGH"
        /\ ~transfer_ongoing
        /\ dma_buffer_idx = -1
        /\ Len(completed) = Len(scheduled)

\* chip select is about to be asserted again after a completed transfer
C16_Witness ==
    /\ pc = "sched_cs"
    /\ Len(completed) >= 1

\* C17: transferComplete deasserts chip select and sets dma_buffer_idx to -1;
\* it leaves the active index, the fill length, both buffers and the
\* foreground's position unchanged and hands nothing to the scheduler.
C17_CompletionFrame ==
    [][ completed' # completed =>
          /\ cs' = "HIGH"
          /\ dma_buffer_idx' = -1
          /\ UNCHANGED <<active_buffer_idx, active_buffer_offset, tx_buffer>>
          /\ UNCHANGED <<pc, ret, calls, scheduled>> ]_vars

\* a transfer completed while bytes were pending in the active buffer
C17_Witness ==
    /\ Len(completed) >= 1
    /\ Len(completed) = Len(scheduled)
    /\ dma_buffer_idx = -1 /\ cs = "HIGH"
    /\ active_buffer_offset > 0
    /\ pc = "idle"

\* the step is a FlushBuffer call
FlushCall == Len(calls') > Len(calls) /\ calls'[Len(calls')].kind = "flush"

\* C18: FlushBuffer enters scheduleTransfer exactly when bytes are pending,
\* whatever the mode and the fill length; with none pending it returns at
\* once and changes neither the indices, the fill length nor chip select.
C18_FlushIffPending ==
    [][ FlushCall =>
          /\ active_buffer_offset > 0 =>
                /\ pc' = "sched_wait" /\ ret' = "idle"
                /\ UNCHANGED <<active_buffer_idx, active_buffer_offset>>
          /\ active_buffer_offset = 0 =>
                /\ pc' = "idle"
                /\ UNCHANGED <<active_buffer_idx, active_buffer_offset,
                               dma_buffer_idx, cs, scheduled, transfer_ongoing>>
      ]_vars

\* FlushBuffer on a partly filled buffer
C18_Witness ==
    /\ pc = "sched_wait"
    /\ calls # <<>> /\ calls[Len(calls)].kind = "flush"
    /\ active_buffer_offset \in 1..(SCREEN_DATA_BUFFER_SIZE - 1)

\* C19: with the DMA engine and the CPU making progress every transfer
\* completes, every call returns and dma_buffer_idx returns to -1; a
\* finished transfer engine has completed every transfer handed to it.
C19_Terminates ==
    /\ transfer_ongoing ~> ~transfer_ongoing
    /\ (pc # "idle") ~> (pc = "idle")
    /\ (dma_buffer_idx # -1) ~> (dma_buffer_idx = -1)
    /\ [](~transfer_ongoing /\ pc = "idle" => Len(completed) = Len(scheduled))

\* two transfers ran to completion and the driver is idle again
C19_Witness ==
    /\ Len(completed) >= 2
    /\ pc = "idle"
    /\ dma_buffer_idx = -1

\* C20: every append writes below capacity: the fill length is below
\* capacity whenever SendDataWord can be entered and never above capacity.
C20_AppendInBounds ==
    /\ ~overflow
    /\ active_buffer_offset <= SCREEN_DATA_BUFFER_SIZE
    /\ pc = "idle" => active_buffer_offset < SCREEN_DATA_BUFFER_SIZE

\* the last byte of a buffer was just written
C20_Witness ==
    /\ pc = "sched_wait"
    /\ active_buffer_offset = SCREEN_DATA_BUFFER_SIZE
    /\ calls[Len(calls)].kind = "data"
    /\ Len(scheduled) >= 1

\* a command's window from D4DLCD_ASSERT_DC to D4DLCD_DEASSERT_DC
InCmdWindow == pc \in {"cmd_cs", "cmd_xfer", "cmd_cs_off", "cmd_dc_off"}

\* C21: SendCmdWord flushes, waits, drives DC to command level, asserts chip
\* select, transfers, deasserts chip select and returns DC to data level; so
\* once the driver is initialized DC is at data level during every DMA
\* transfer, and a byte goes out at command level only if it is a command's.
C21_DataLevelOutsideCommands ==
    /\ [](/\ pc \in {"cmd_dc", "cmd_cs", "cmd_xfer"} =>
                /\ active_buffer_offset = 0
                /\ ~transfer_ongoing
          /\ pc = "cmd_xfer" => dc = "LOW" /\ cs = "LOW"
          /\ pc = "cmd_dc_off" => cs = "HIGH"
          /\ (initialized /\ transfer_ongoing) => dc = "HIGH")
    /\ [][ bus' # bus =>
             ((dc = "LOW") <=> (bus'[Len(bus')].kind = "cmd")) ]_vars

\* C22: while the DMA engine transfers buffer i chip select is asserted and
\* dma_buffer_idx is i; a completion notification always belongs to the
\* newest transfer and never arrives inside a command's window.
C22_CompletionBelongsToTransfer ==
    /\ transfer_ongoing =>
          /\ cs = "LOW"
          /\ dma_buffer_idx = dmaSrc
          /\ dmaId = Len(scheduled)
          /\ ~InCmdWindow
    /\ completed # <<>> => completed[Len(completed)] <= Len(scheduled)
    /\ InCmdWindow => Len(completed) = Len(scheduled)

\* the second transfer is in flight after the first one's notification
C22_Witness ==
    /\ transfer_ongoing
    /\ Len(completed) >= 1
    /\ dmaSrc = 1
    /\ dmaPos > 0

\* C23: in flushData new_active_idx == dma_buffer_idx is never true, so the
\* second waitForTransferToComplete is never executed.
C23_SecondWaitUnreachable ==
    /\ pc # "flush_wait"
    /\ pc = "flush_cmp" =>
          /\ dma_buffer_idx \in {active_buffer_idx, -1}
          /\ NewActiveIdx(active_buffer_idx) # dma_buffer_idx

\* the test is reached after the transfer just scheduled has completed
C23_Witness ==
    /\ pc = "flush_cmp"
    /\ dma_buffer_idx = -1
    /\ Len(scheduled) >= 2

\* C24: after any installSensor / uninstallSensor calls the wrapped pointer
\* refers to a sensor that is not deleted, the default sensor is never
\* deleted, and uninstallSensor returns false exactly when the default
\* sensor was installed.
C24_SensorAlive ==
    /\ sensor \notin deletedSensors
    /\ DefaultSensor \notin deletedSensors
    /\ sensorOp = "uninstall" => (sensorRet = FALSE <=> sensorWas = DefaultSensor)

====
